---- MODULE Spec2Model ----
(***************************************************************************)
(* gowsdl: schema graph assembly (GoWSDL.unmarshal / resolveXSDExternals) *)
(* and namespace-aware type resolution (TypeResolver / NsTypeResolver).   *)
(*                                                                         *)
(* Go strings are modelled as sequences of one-character strings, so that *)
(* the conversions of the code (ToLower, Split, TrimPrefix, ToCamel,      *)
(* makePublic, normalize) are computed character by character.  The Go    *)
(* zero value "" is the empty sequence << >>.  A Go map is a function     *)
(* whose DOMAIN is the set of keys present; a missing key reads as "".    *)
(***************************************************************************)
EXTENDS Integers, Sequences, FiniteSets, TLC

VARIABLES
    input,                  \* the documents of the run: what the root WSDL and the XSD files hold
    pc,                     \* position of GoWSDL.Generate
    err,                    \* the error Generate returns (NoError while none)
    schemas,                \* g.wsdl.Types.Schemas: pointers to the schemas of the graph
    stack,                  \* active resolveXSDExternals calls, innermost last
    rootIdx,                \* index of unmarshal's loop over the root schemas
    rootLen,                \* length of wsdl.Types.Schemas when that loop started
    resolvedXSDExternals,   \* g.resolvedXSDExternals (the keys set to true)
    currentRecursionLevel,  \* g.currentRecursionLevel (uint8)
    fetchLog,               \* history: the locations handed to fetchFile, in order
    tr,                     \* the TypeResolver
    heap,                   \* every NsTypeResolver created, in creation order
    ri,                     \* loop index inside RegisterTypes
    retResolver,            \* RegisterTypes' ret: the resolver of wsdl.TargetNamespace
    regDone,                \* RegisterTypes has returned
    emitted,                \* the generator steps that have run
    lastCall,               \* the last FindTypeNillable call and its result
    watch,                  \* history: one earlier call, kept to compare with later ones
    clientCall,             \* one Client.call of the generated code's runtime: where it
                            \* is, its arguments, the response and the error it returns
    xmlContent,             \* one soap.XmlContent: its fields Content and Items
    xmlCall                 \* history: the last call on xmlContent and what it returned

vars == << input, pc, err, schemas, stack, rootIdx, rootLen,
           resolvedXSDExternals, currentRecursionLevel, fetchLog, tr, heap, ri,
           retResolver, regDone, emitted, lastCall, watch, clientCall,
           xmlContent, xmlCall >>

(***************************************************************************)
(* Strings                                                                 *)
(***************************************************************************)
Range(f) == { f[x] : x \in DOMAIN f }

\* Go map read: the zero value "" for a key that is absent
MapGet(m, k) == IF k \in DOMAIN m THEN m[k] ELSE << >>

\* Go map write m[k] = v
MapPut(m, k, v) == [ x \in (DOMAIN m) \cup {k} |-> IF x = k THEN v ELSE m[x] ]

LowerLetters == << "a","b","c","d","e","f","g","h","i","j","k","l","m",
                   "n","o","p","q","r","s","t","u","v","w","x","y","z" >>
UpperLetters == << "A","B","C","D","E","F","G","H","I","J","K","L","M",
                   "N","O","P","Q","R","S","T","U","V","W","X","Y","Z" >>
Digits == { "0","1","2","3","4","5","6","7","8","9" }

IsLow(c) == c \in Range(LowerLetters)
IsCap(c) == c \in Range(UpperLetters)
IsLetter(c) == IsLow(c) \/ IsCap(c)
IsDigit(c) == c \in Digits

ToUpperCh(c) ==
    IF IsLow(c) THEN UpperLetters[CHOOSE i \in 1..26 : LowerLetters[i] = c] ELSE c
ToLowerCh(c) ==
    IF IsCap(c) THEN LowerLetters[CHOOSE i \in 1..26 : UpperLetters[i] = c] ELSE c

\* strings.ToLower
ToLower(s) == [ i \in 1..Len(s) |-> ToLowerCh(s[i]) ]

\* strings.Split(s, sep) for a one-character separator
Split(s, sep) ==
    LET RECURSIVE F(_, _, _)
        F(i, cur, acc) ==
            IF i > Len(s) THEN Append(acc, cur)
            ELSE IF s[i] = sep THEN F(i + 1, << >>, Append(acc, cur))
            ELSE F(i + 1, Append(cur, s[i]), acc)
    IN  F(1, << >>, << >>)

HasPrefix(s, p) == Len(p) <= Len(s) /\ SubSeq(s, 1, Len(p)) = p

\* strings.TrimPrefix
TrimPrefix(s, p) == IF HasPrefix(s, p) THEN SubSeq(s, Len(p) + 1, Len(s)) ELSE s

\* strings.ReplaceAll(s, old, ""): drop the non-overlapping occurrences of old
RemoveAll(s, old) ==
    LET RECURSIVE F(_, _)
        F(i, acc) ==
            IF i > Len(s) THEN acc
            ELSE IF i + Len(old) - 1 <= Len(s) /\ SubSeq(s, i, i + Len(old) - 1) = old
                 THEN F(i + Len(old), acc)
                 ELSE F(i + 1, Append(acc, s[i]))
    IN  F(1, << >>)

\* strings.Contains for a one-character needle
Contains(s, c) == \E i \in 1..Len(s) : s[i] = c

(***************************************************************************)
(* Fixed tables of gowsdl.go                                               *)
(***************************************************************************)
\* "http://www.w3.org/2001/XMLSchema"
XSDNamespace == <<"h", "t", "t", "p", ":", "/", "/", "w", "w", "w", ".", "w", "3", ".", "o", "r", "g", "/", "2", "0", "0", "1", "/", "X", "M", "L", "S", "c", "h", "e", "m", "a">>
\* "https://", "http://", "webservice", "EmptyString"
sHttps == <<"h", "t", "t", "p", "s", ":", "/", "/">>
sHttp == <<"h", "t", "t", "p", ":", "/", "/">>
sWebservice == <<"w", "e", "b", "s", "e", "r", "v", "i", "c", "e">>
sEmptyString == <<"E", "m", "p", "t", "y", "S", "t", "r", "i", "n", "g">>

xsd2GoTypes ==
    (<<"s", "t", "r", "i", "n", "g">> :> <<"s", "t", "r", "i", "n", "g">>) @@
    (<<"t", "o", "k", "e", "n">> :> <<"s", "t", "r", "i", "n", "g">>) @@
    (<<"f", "l", "o", "a", "t">> :> <<"f", "l", "o", "a", "t", "3", "2">>) @@
    (<<"d", "o", "u", "b", "l", "e">> :> <<"f", "l", "o", "a", "t", "6", "4">>) @@
    (<<"d", "e", "c", "i", "m", "a", "l">> :> <<"f", "l", "o", "a", "t", "6", "4">>) @@
    (<<"i", "n", "t", "e", "g", "e", "r">> :> <<"i", "n", "t", "3", "2">>) @@
    (<<"i", "n", "t">> :> <<"i", "n", "t", "3", "2">>) @@
    (<<"s", "h", "o", "r", "t">> :> <<"i", "n", "t", "1", "6">>) @@
    (<<"b", "y", "t", "e">> :> <<"i", "n", "t", "8">>) @@
    (<<"l", "o", "n", "g">> :> <<"i", "n", "t", "6", "4">>) @@
    (<<"b", "o", "o", "l", "e", "a", "n">> :> <<"b", "o", "o", "l">>) @@
    (<<"d", "a", "t", "e", "t", "i", "m", "e">> :> <<"s", "o", "a", "p", ".", "X", "S", "D", "D", "a", "t", "e", "T", "i", "m", "e">>) @@
    (<<"d", "a", "t", "e">> :> <<"s", "o", "a", "p", ".", "X", "S", "D", "D", "a", "t", "e">>) @@
    (<<"t", "i", "m", "e">> :> <<"s", "o", "a", "p", ".", "X", "S", "D", "T", "i", "m", "e">>) @@
    (<<"b", "a", "s", "e", "6", "4", "b", "i", "n", "a", "r", "y">> :> <<"[", "]", "b", "y", "t", "e">>) @@
    (<<"h", "e", "x", "b", "i", "n", "a", "r", "y">> :> <<"[", "]", "b", "y", "t", "e">>) @@
    (<<"u", "n", "s", "i", "g", "n", "e", "d", "i", "n", "t">> :> <<"u", "i", "n", "t", "3", "2">>) @@
    (<<"u", "n", "s", "i", "g", "n", "e", "d", "s", "h", "o", "r", "t">> :> <<"u", "i", "n", "t", "1", "6">>) @@
    (<<"u", "n", "s", "i", "g", "n", "e", "d", "b", "y", "t", "e">> :> <<"b", "y", "t", "e">>) @@
    (<<"u", "n", "s", "i", "g", "n", "e", "d", "l", "o", "n", "g">> :> <<"u", "i", "n", "t", "6", "4">>) @@
    (<<"a", "n", "y", "t", "y", "p", "e">> :> <<"s", "o", "a", "p", ".", "A", "n", "y", "T", "y", "p", "e">>) @@
    (<<"n", "c", "n", "a", "m", "e">> :> <<"s", "o", "a", "p", ".", "N", "C", "N", "a", "m", "e">>) @@
    (<<"a", "n", "y", "u", "r", "i">> :> <<"s", "o", "a", "p", ".", "A", "n", "y", "U", "R", "I">>) @@
    (<<"q", "n", "a", "m", "e">> :> <<"s", "o", "a", "p", ".", "Q", "N", "a", "m", "e">>)

basicTypes ==
    {<<"s", "t", "r", "i", "n", "g">>,
     <<"f", "l", "o", "a", "t", "3", "2">>,
     <<"f", "l", "o", "a", "t", "6", "4">>,
     <<"i", "n", "t">>,
     <<"i", "n", "t", "8">>,
     <<"i", "n", "t", "1", "6">>,
     <<"i", "n", "t", "3", "2">>,
     <<"i", "n", "t", "6", "4">>,
     <<"b", "o", "o", "l">>,
     <<"t", "i", "m", "e", ".", "T", "i", "m", "e">>,
     <<"[", "]", "b", "y", "t", "e">>,
     <<"b", "y", "t", "e">>,
     <<"u", "i", "n", "t", "1", "6">>,
     <<"u", "i", "n", "t", "3", "2">>,
     <<"u", "i", "n", "i", "t", "6", "4">>,
     <<"i", "n", "t", "e", "r", "f", "a", "c", "e", "{", "}">>}

reservedWords ==
    (<<"b", "r", "e", "a", "k">> :> <<"b", "r", "e", "a", "k", "_">>) @@
    (<<"d", "e", "f", "a", "u", "l", "t">> :> <<"d", "e", "f", "a", "u", "l", "t", "_">>) @@
    (<<"f", "u", "n", "c">> :> <<"f", "u", "n", "c", "_">>) @@
    (<<"i", "n", "t", "e", "r", "f", "a", "c", "e">> :> <<"i", "n", "t", "e", "r", "f", "a", "c", "e", "_">>) @@
    (<<"s", "e", "l", "e", "c", "t">> :> <<"s", "e", "l", "e", "c", "t", "_">>) @@
    (<<"c", "a", "s", "e">> :> <<"c", "a", "s", "e", "_">>) @@
    (<<"d", "e", "f", "e", "r">> :> <<"d", "e", "f", "e", "r", "_">>) @@
    (<<"g", "o">> :> <<"g", "o", "_">>) @@
    (<<"m", "a", "p">> :> <<"m", "a", "p", "_">>) @@
    (<<"s", "t", "r", "u", "c", "t">> :> <<"s", "t", "r", "u", "c", "t", "_">>) @@
    (<<"c", "h", "a", "n">> :> <<"c", "h", "a", "n", "_">>) @@
    (<<"e", "l", "s", "e">> :> <<"e", "l", "s", "e", "_">>) @@
    (<<"g", "o", "t", "o">> :> <<"g", "o", "t", "o", "_">>) @@
    (<<"p", "a", "c", "k", "a", "g", "e">> :> <<"p", "a", "c", "k", "a", "g", "e", "_">>) @@
    (<<"s", "w", "i", "t", "c", "h">> :> <<"s", "w", "i", "t", "c", "h", "_">>) @@
    (<<"c", "o", "n", "s", "t">> :> <<"c", "o", "n", "s", "t", "_">>) @@
    (<<"f", "a", "l", "l", "t", "h", "r", "o", "u", "g", "h">> :> <<"f", "a", "l", "l", "t", "h", "r", "o", "u", "g", "h", "_">>) @@
    (<<"i", "f">> :> <<"i", "f", "_">>) @@
    (<<"r", "a", "n", "g", "e">> :> <<"r", "a", "n", "g", "e", "_">>) @@
    (<<"t", "y", "p", "e">> :> <<"t", "y", "p", "e", "_">>) @@
    (<<"c", "o", "n", "t", "i", "n", "u", "e">> :> <<"c", "o", "n", "t", "i", "n", "u", "e", "_">>) @@
    (<<"f", "o", "r">> :> <<"f", "o", "r", "_">>) @@
    (<<"i", "m", "p", "o", "r", "t">> :> <<"i", "m", "p", "o", "r", "t", "_">>) @@
    (<<"r", "e", "t", "u", "r", "n">> :> <<"r", "e", "t", "u", "r", "n", "_">>) @@
    (<<"v", "a", "r">> :> <<"v", "a", "r", "_">>)

maxRecursion == 20

(***************************************************************************)
(* Name synthesis                                                          *)
(***************************************************************************)
isBasicType(identifier) == identifier \in basicTypes

\* strcase.ToCamel (v0.3.0, no acronyms configured): letters are copied, the
\* first letter and every letter after a digit or one of _ space - . is
\* upper-cased, a capital directly after a capital is lower-cased, every
\* character that is neither letter nor digit is dropped.
ToCamel(s) ==
    LET RECURSIVE F(_, _, _, _)
        F(i, capNext, prevIsCap, out) ==
            IF i > Len(s) THEN out
            ELSE LET v0 == s[i]
                     v  == IF capNext THEN ToUpperCh(v0)
                           ELSE IF i = 1 THEN ToLowerCh(v0)
                           ELSE IF prevIsCap /\ IsCap(v0) THEN ToLowerCh(v0)
                           ELSE v0
                 IN  IF IsLetter(v0) THEN F(i + 1, FALSE, IsCap(v0), Append(out, v))
                     ELSE IF IsDigit(v0) THEN F(i + 1, TRUE, FALSE, Append(out, v))
                     ELSE F(i + 1, v0 \in {"_", " ", "-", "."}, FALSE, out)
    IN  F(1, TRUE, FALSE, << >>)

makePublic(identifier) ==
    IF isBasicType(identifier) THEN identifier
    ELSE IF identifier = << >> THEN sEmptyString
    ELSE [ identifier EXCEPT ![1] = ToUpperCh(identifier[1]) ]

\* NewGoWSDL's exportAllTypes argument: the option make-public of the command,
\* true unless the run sets it
exportAllTypes ==
    IF "exportAllTypes" \in DOMAIN input THEN input.exportAllTypes ELSE TRUE

\* GoWSDL.makePublicFn: the identity unless exportAllTypes is set
makePublicFn(id) == IF exportAllTypes THEN makePublic(id) ELSE id

normalize(value) ==
    LET RECURSIVE F(_, _)
        F(i, acc) ==
            IF i > Len(value) THEN acc
            ELSE IF value[i] = "." THEN F(i + 1, Append(acc, "_"))
            ELSE IF IsLetter(value[i]) \/ IsDigit(value[i]) \/ value[i] = "_"
                 THEN F(i + 1, Append(acc, value[i]))
                 ELSE F(i + 1, acc)
    IN  F(1, << >>)

replaceReservedWords(identifier) ==
    IF MapGet(reservedWords, identifier) # << >>
    THEN reservedWords[identifier]
    ELSE normalize(identifier)

NormalizeTypeName(typeName) == replaceReservedWords(makePublic(ToCamel(typeName)))

NamespaceToPackageRelative(namespace) ==
    RemoveAll(RemoveAll(ToLower(TrimPrefix(TrimPrefix(namespace, sHttps), sHttp)),
                        sWebservice), << "-" >>)

PackageLast(packageFull) ==
    LET parts == Split(packageFull, "/") IN parts[Len(parts)]

NamespaceToPackage(namespace) == PackageLast(NamespaceToPackageRelative(namespace))

(***************************************************************************)
(* Inputs: the documents of one run                                        *)
(***************************************************************************)
nsA     == << "u","r","n",":","a" >>   \* "urn:a"
nsB     == << "u","r","n",":","b" >>   \* "urn:b"
nsD     == << "h","t","t","p",":","/","/","d","/" >>   \* "http://d/"
pD      == << "d" >>
nsC     == << "u","r","n",":","c" >>   \* "urn:c"
pTns    == << "t","n","s" >>           \* "tns"
pA      == << "a" >>                   \* "a"
pB      == << "b" >>                   \* "b"
pP      == << "p" >>                   \* "p"
pXsd    == << "x","s","d" >>           \* "xsd"
nFoo    == << "F","o","o" >>           \* "Foo"
nWidget == << "W","i","d","g","e","t" >>   \* "Widget"
nPart   == << "P","a","r","t" >>       \* "Part"
nBar    == << "B","a","r" >>           \* "Bar"
nReq    == << "R","e","q" >>           \* "Req"
nNope   == << "N","o","p","e" >>       \* "Nope"
nNext   == << "n","e","x","t" >>       \* "next"
nOrder  == << "O","r","d","e","r" >>
nOrderType == nOrder \o << "T","y","p","e" >>
nString == << "s","t","r","i","n","g" >>   \* "string"
sDir    == << "w","/" >>               \* "w/": the directory of every document
hA      == << "a" >>                   \* schemaLocation "a": the root document itself
hB      == << "b" >>                   \* schemaLocation "b"
hC      == << "c" >>                   \* schemaLocation "c"
hNone   == << >>                       \* no schemaLocation attribute
sPkg    == << "m","y","s","e","r","v","i","c","e" >>   \* "myservice": the -p option

\* a prefixed reference "prefix:name"
Ref(prefix, name) == prefix \o << ":" >> \o name

\* an XSDSchema as xml.Unmarshal delivers it
XSDSchema(ns, xmlns, complexTypes, simpleTypes, elements, imports, includes) ==
    [ TargetNamespace |-> ns, Xmlns |-> xmlns,
      ComplexTypes |-> complexTypes,
      SimpleType |-> [ i \in 1..Len(simpleTypes) |-> [ Name |-> simpleTypes[i] ] ],
      Elements |-> elements,
      Imports |-> [ i \in 1..Len(imports) |-> [ SchemaLocation |-> imports[i] ] ],
      Includes |-> [ i \in 1..Len(includes) |-> [ SchemaLocation |-> includes[i] ] ] ]

\* an XSDElement; Type is its type attribute, ComplexType is << >> for nil and
\* << [Name |-> n] >> otherwise
XSDElement(name, type, complexType) ==
    [ Name |-> name, Type |-> type, ComplexType |-> complexType ]

\* a named XSDComplexType and the elements of its content
XSDComplexType(name, sequence) == [ Name |-> name, Sequence |-> sequence ]

\* a WSDLMessage and its parts
WSDLPart(type, element) == [ Type |-> type, Element |-> element ]
WSDLMessage(name, parts) == [ Name |-> name, Parts |-> parts ]

XmlnsA == (pTns :> nsA) @@ (pB :> nsB) @@ (pXsd :> XSDNamespace)
XmlnsB == (pTns :> nsB) @@ (pA :> nsA) @@ (pXsd :> XSDNamespace)
\* another prefix map of a document of urn:b: it binds p, not a, to urn:a
XmlnsB2 == (pTns :> nsB) @@ (pP :> nsA) @@ (pXsd :> XSDNamespace)
\* the prefix map of a document of urn:b that binds the prefix d to http://d/
XmlnsBD == XmlnsB @@ (pD :> nsD)
\* the prefix map of a document of urn:c: the prefixes a and p are both bound to urn:a
XmlnsC == (pTns :> nsC) @@ (pA :> nsA) @@ (pP :> nsA) @@ (pB :> nsB)
          @@ (pXsd :> XSDNamespace)

\* Location: a local file path (Location.f)
Location(path) == [ f |-> path ]

\* Location.String
LocString(loc) == loc.f

\* Location.Parse(ref): ref resolved against the directory of the base document
LocParse(base, ref) ==
    LET parts == Split(base.f, "/")
        RECURSIVE Dir(_)
        Dir(i) == IF i >= Len(parts) THEN << >> ELSE parts[i] \o << "/" >> \o Dir(i + 1)
    IN  Location(Dir(1) \o ref)

RootLocation == Location(sDir \o hA)
RootKey == LocString(RootLocation)

\* the chain document of depth k is named by k letters d and imports depth k+1
ChainLen == 22
ChainName(k) == [ i \in 1..k |-> "d" ]

\* the sibling document k is named by k letters e and imports the leaf document
\* named by k letters f
WideLen == 21
WideName(k) == [ i \in 1..k |-> "e" ]
LeafName(k) == [ i \in 1..k |-> "f" ]
WideImports == [ k \in 1..WideLen |-> WideName(k) ]

\* the import and include locations of one schema
Ext(imports, includes) == [ Imports |-> imports, Includes |-> includes ]

\* a schema given by the import and include entries in the order its document
\* declares them; xml.Unmarshal delivers the imports and the includes as two lists
ExtDeclared(declared) ==
    LET RECURSIVE Select(_, _)
        Select(i, kind) ==
            IF i > Len(declared) THEN << >>
            ELSE IF declared[i].kind = kind
                 THEN << declared[i].SchemaLocation >> \o Select(i + 1, kind)
                 ELSE Select(i + 1, kind)
    IN  [ Imports |-> Select(1, "import"), Includes |-> Select(1, "include"),
          Declared |-> declared ]

\* The variable input describes the documents of the run:
\*   roots    the import/include locations of each inline schema of the root WSDL
\*   rootXsd  those the root document shows when it is parsed as a schema
\*   b, c     those of the documents b and c; c.ns is the namespace of c
\*   chain    the number of chain documents
\*   messages the messages of the WSDL
\*   refs     the type references the templates of the generators look up
MkInput(roots, rootXsd, b, c, chain, messages, refs) ==
    [ roots |-> roots, rootXsd |-> rootXsd, b |-> b, c |-> c, chain |-> chain,
      messages |-> messages, refs |-> refs ]

\* the same run with the option make-public switched off
PreserveCase(inp) == inp @@ [ exportAllTypes |-> FALSE ]

\* the inline schema of the WSDL (urn:a), the imported document b (urn:b) and
\* the fragment c; the complex type Foo of urn:a holds an element of type Foo,
\* and urn:b declares a simple type named string and an element Order whose
\* inline complex type is named OrderType
SchemaA(ext) ==
    XSDSchema(nsA, XmlnsA,
              << XSDComplexType(nFoo, << XSDElement(nNext, Ref(pTns, nFoo), << >>) >>) >>,
              << >>,
              << XSDElement(nReq, << >>, << [ Name |-> << >> ] >>) >>,
              ext.Imports, ext.Includes)
SchemaB(ext) ==
    XSDSchema(nsB, IF "Xmlns" \in DOMAIN ext THEN ext.Xmlns ELSE XmlnsB,
              << XSDComplexType(nWidget, << >>) >>, << nString >>,
              << XSDElement(nOrder, << >>, << [ Name |-> nOrderType ] >>) >>,
              ext.Imports, ext.Includes)
SchemaC(ext) ==
    XSDSchema(ext.ns,
              IF "Xmlns" \in DOMAIN ext THEN ext.Xmlns
              ELSE IF ext.ns = nsA THEN XmlnsA ELSE IF ext.ns = nsB THEN XmlnsB ELSE XmlnsC,
              << XSDComplexType(nPart, << >>) >>, << >>, << >>, << >>, ext.Includes)
SchemaChain(k) ==
    XSDSchema(nsB, XmlnsB, << >>, << >>, << >>,
              IF k < input.chain THEN << ChainName(k + 1) >> ELSE << >>, << >>)

SchemaWide(k) ==
    XSDSchema(nsB, XmlnsB, << >>, << >>, << >>, << LeafName(k) >>, << >>)
SchemaLeaf ==
    XSDSchema(nsB, XmlnsB, << >>, << >>, << >>, << >>, << >>)

\* the files that exist, and what a file parses to as an XSDSchema
FileKeys ==
    { RootKey, sDir \o hB, sDir \o hC } \cup { sDir \o ChainName(k) : k \in 1..input.chain }
    \cup { sDir \o WideName(k) : k \in 1..WideLen }
    \cup { sDir \o LeafName(k) : k \in 1..WideLen }
FileSchema(key) ==
    IF key = RootKey THEN SchemaA(input.rootXsd)
    ELSE IF key = sDir \o hB THEN SchemaB(input.b)
    ELSE IF key = sDir \o hC THEN SchemaC(input.c)
    ELSE IF key[Len(sDir) + 1] = "e" THEN SchemaWide(Len(key) - Len(sDir))
    ELSE IF key[Len(sDir) + 1] = "f" THEN SchemaLeaf
    ELSE SchemaChain(Len(key) - Len(sDir))

\* the root document parsed as a WSDL; its schemas are held by pointer
Ptr(key, n) == [ key |-> key, n |-> n ]
WsdlDoc ==
    [ TargetNamespace |-> nsA, Xmlns |-> XmlnsA,
      Schemas |-> [ i \in 1..Len(input.roots) |-> Ptr(RootKey, i) ],
      Messages |-> input.messages ]

\* the two schemas RegisterTypes makes itself
XSDPseudoPtr == Ptr(<< >>, -1)
WSDLPseudoPtr == Ptr(<< >>, -2)
XSDPseudoSchema ==
    XSDSchema(XSDNamespace, [ x \in {} |-> << >> ], << >>, << >>, << >>, << >>, << >>)
WSDLPseudoSchema ==
    XSDSchema(WsdlDoc.TargetNamespace, WsdlDoc.Xmlns, << >>, << >>, << >>, << >>, << >>)

\* A *XSDSchema is Ptr(key, n): the n-th inline schema of the WSDL at key for
\* n >= 1, the schema the file at key parsed to for n = 0.
Deref(p) ==
    IF p.n = -1 THEN XSDPseudoSchema
    ELSE IF p.n = -2 THEN WSDLPseudoSchema
    ELSE IF p.n = 0 THEN FileSchema(p.key)
    ELSE SchemaA(input.roots[p.n])

\* the messages of the WSDL
MsgZero  == WSDLMessage(<< "M","0" >>, << >>)
MsgType  == WSDLMessage(<< "M","1" >>, << WSDLPart(Ref(pTns, nFoo), << >>) >>)
MsgElem  == WSDLMessage(<< "M","2" >>, << WSDLPart(<< >>, Ref(pTns, nReq)) >>)
MsgMulti == WSDLMessage(<< "M","3" >>, << WSDLPart(Ref(pB, nWidget), << >>),
                                          WSDLPart(Ref(pTns, nFoo), << >>) >>)
MsgNope  == WSDLMessage(<< "M","4" >>, << WSDLPart(Ref(pTns, nNope), << >>) >>)
MsgBoth  == WSDLMessage(<< "M","5" >>, << WSDLPart(Ref(pTns, nFoo), Ref(pTns, nReq)) >>)
MsgLate  == WSDLMessage(<< "M","6" >>, << WSDLPart(Ref(pTns, nNope), Ref(pTns, nReq)) >>)
MessageKinds == { MsgZero, MsgType, MsgElem, MsgMulti, MsgNope, MsgBoth, MsgLate }
\* a message whose part refers to a type of urn:b
\* messages whose part refers to a primitive type: xsd:string, xsd:dateTime
MsgString == WSDLMessage(<< "M","8" >>, << WSDLPart(Ref(pXsd, nString), << >>) >>)
MsgDateTime ==
    WSDLMessage(<< "M","9" >>,
                << WSDLPart(Ref(pXsd, << "d","a","t","e","T","i","m","e" >>), << >>) >>)
\* a message named like the element its part refers to
MsgReq == WSDLMessage(nReq, << WSDLPart(<< >>, Ref(pTns, nReq)) >>)
MsgForeign == WSDLMessage(<< "M","7" >>, << WSDLPart(Ref(pB, nWidget), << >>) >>)

RootImportLists == { << >>, << hNone >>, << hB >>, << hNone, hB >>, << hB, hC >>, << hC, hB >> }
RootIncludeLists == { << >>, << hC >>, << hB >>, << hC, hB >> }
BImportLists == { << >>, << hNone >>, << hC >>, << hA >> }
BIncludeLists == { << >>, << hC >>, << hA >>, << hB >> }
CIncludeLists == { << >>, << hB >>, << hA >>, << hC >> }
NoExt == Ext(<< >>, << >>)
FragmentC(ns, includes) == [ ns |-> ns, Includes |-> includes ]
\* the fragment c with a prefix map of its own
FragmentCWith(ns, xmlns, includes) == [ ns |-> ns, Xmlns |-> xmlns, Includes |-> includes ]

\* the graphs of the assembly specification: every combination of the lists
\* above, a WSDL with two inline schemas, and the chain reached by an import or
\* by an include
InputsAsm ==
    { MkInput(<< Ext(ri_, rc) >>, Ext(ri_, rc), Ext(bi, bc), FragmentC(nsB, cc),
              0, << MsgType >>, {}) :
        ri_ \in RootImportLists, rc \in RootIncludeLists,
        bi \in BImportLists, bc \in BIncludeLists, cc \in CIncludeLists }
    \cup
    { MkInput(<< Ext(<< hB >>, << >>), Ext(<< hB, hC >>, << >>) >>, NoExt, NoExt,
              FragmentC(nsB, << >>), 0, << MsgType >>, {}),
      MkInput(<< Ext(<< ChainName(1) >>, << >>) >>, NoExt, NoExt,
              FragmentC(nsB, << >>), ChainLen, << MsgType >>, {}),
      MkInput(<< Ext(<< >>, << ChainName(1) >>) >>, NoExt, NoExt,
              FragmentC(nsB, << >>), ChainLen, << MsgType >>, {}),
      MkInput(<< Ext(WideImports, << >>) >>, NoExt, NoExt,
              FragmentC(nsB, << >>), 0, << MsgType >>, {}),
      MkInput(<< ExtDeclared(<< [ kind |-> "include", SchemaLocation |-> hC ],
                                [ kind |-> "import", SchemaLocation |-> hB ] >>) >>,
              NoExt, NoExt, FragmentC(nsA, << >>), 0, << MsgType >>, {}) }

(***************************************************************************)
(* Schema graph assembly: GoWSDL.unmarshal and resolveXSDExternals         *)
(***************************************************************************)
NoError == [ kind |-> "none", key |-> << >> ]
FetchOutcomes == { "ok", "fetchError", "parseError" }

\* the import entries of a schema followed by its include entries
Entries(schema) ==
    [ i \in 1..Len(schema.Imports) |->
        [ kind |-> "import", SchemaLocation |-> schema.Imports[i].SchemaLocation ] ]
    \o
    [ i \in 1..Len(schema.Includes) |->
        [ kind |-> "include", SchemaLocation |-> schema.Includes[i].SchemaLocation ] ]

\* one call of resolveXSDExternals(schema, loc); idx is the entry its loops are at,
\* pending the newschema of a download that is waiting for its recursive call
NewFrame(schema, loc) == [ schema |-> schema, loc |-> loc, idx |-> 1, pending |-> << >> ]

Top == stack[Len(stack)]
HasEntry == stack # << >> /\ Top.idx <= Len(Entries(Deref(Top.schema)))
Entry == Entries(Deref(Top.schema))[Top.idx]

\* a variant of IsSkipped that passes over nothing: an import without
\* schemaLocation is downloaded like any other entry
IsSkippedNever(e) == FALSE

\* an import entry without schemaLocation is passed over
IsSkipped(e) == e.kind = "import" /\ e.SchemaLocation = << >>

\* download: the location an entry resolves to, and its key
EntryLocation == LocParse(Top.loc, Entry.SchemaLocation)
schemaKey == LocString(EntryLocation)

\* download: the key was resolved before
AlreadyResolved(key) == key \in resolvedXSDExternals

\* a variant of Descends without the cap: a schema with externals is always
\* descended into
DescendsUncapped(newschema, level) ==
    Len(newschema.Includes) > 0 \/ Len(newschema.Imports) > 0

\* download: whether the new schema is descended into
Descends(newschema, level) ==
    (Len(newschema.Includes) > 0 \/ Len(newschema.Imports) > 0) /\ maxRecursion > level

\* a variant of Advance whose loop stays at the entry it is at
AdvanceStays(frame) == [ frame EXCEPT !.pending = << >> ]

\* the loop of resolveXSDExternals goes on with the next entry
Advance(frame) == [ frame EXCEPT !.idx = @ + 1, !.pending = << >> ]

\* a variant of AfterUnmarshal that goes on to RegisterTypes whatever unmarshal returned
AfterUnmarshalIgnoringError(e) == "registerTypes"

\* Generate: an error of unmarshal is returned at once; RegisterTypes follows
\* when there is none
AfterUnmarshal(e) == IF e.kind # "none" THEN "returned" ELSE "registerTypes"

ReplaceTop(frame) == [ stack EXCEPT ![Len(stack)] = frame ]

resolverVars == << tr, heap, ri, retResolver, regDone, emitted, lastCall, watch, clientCall,
                   xmlContent, xmlCall >>

\* unmarshal: fetch and parse the root document
Unmarshal ==
    /\ pc = "unmarshal"
    /\ fetchLog' = Append(fetchLog, LocString(RootLocation))
    /\ \E outcome \in FetchOutcomes :
         IF outcome = "ok"
         THEN /\ schemas' = WsdlDoc.Schemas
              /\ rootIdx' = 1
              /\ rootLen' = Len(WsdlDoc.Schemas)
              /\ pc' = "resolve"
              /\ err' = err
         ELSE /\ err' = [ kind |-> outcome, key |-> LocString(RootLocation) ]
              /\ pc' = AfterUnmarshal(err')
              /\ UNCHANGED << schemas, rootIdx, rootLen >>
    /\ UNCHANGED << input, stack, resolvedXSDExternals, currentRecursionLevel >>
    /\ UNCHANGED resolverVars

\* unmarshal: the loop over the root schemas calls resolveXSDExternals
ResolveRootSchema ==
    /\ pc = "resolve" /\ stack = << >> /\ rootIdx <= rootLen
    /\ stack' = << NewFrame(schemas[rootIdx], RootLocation) >>
    /\ UNCHANGED << input, pc, err, schemas, rootIdx, rootLen,
                    resolvedXSDExternals, currentRecursionLevel, fetchLog >>
    /\ UNCHANGED resolverVars

\* unmarshal returns nil
UnmarshalReturn ==
    /\ pc = "resolve" /\ stack = << >> /\ rootIdx > rootLen
    /\ pc' = AfterUnmarshal(err)
    /\ UNCHANGED << input, err, schemas, stack, rootIdx, rootLen,
                    resolvedXSDExternals, currentRecursionLevel, fetchLog >>
    /\ UNCHANGED resolverVars

\* an import without schemaLocation: continue
SkipImport ==
    /\ pc = "resolve" /\ HasEntry /\ IsSkipped(Entry)
    /\ stack' = ReplaceTop(Advance(Top))
    /\ UNCHANGED << input, pc, err, schemas, rootIdx, rootLen,
                    resolvedXSDExternals, currentRecursionLevel, fetchLog >>
    /\ UNCHANGED resolverVars

\* download: the key is in resolvedXSDExternals, return nil
DownloadResolved ==
    /\ pc = "resolve" /\ HasEntry /\ ~IsSkipped(Entry)
    /\ AlreadyResolved(schemaKey)
    /\ stack' = ReplaceTop(Advance(Top))
    /\ UNCHANGED << input, pc, err, schemas, rootIdx, rootLen,
                    resolvedXSDExternals, currentRecursionLevel, fetchLog >>
    /\ UNCHANGED resolverVars

\* download: the fetch or the parse fails; every caller returns the error at once
DownloadFail ==
    /\ pc = "resolve" /\ HasEntry /\ ~IsSkipped(Entry)
    /\ ~AlreadyResolved(schemaKey)
    /\ resolvedXSDExternals' = resolvedXSDExternals \cup { schemaKey }
    /\ fetchLog' = Append(fetchLog, schemaKey)
    /\ \E outcome \in FetchOutcomes \ { "ok" } :
         /\ schemaKey \notin FileKeys => outcome = "fetchError"
         /\ err' = [ kind |-> outcome, key |-> schemaKey ]
    /\ stack' = << >>
    /\ pc' = AfterUnmarshal(err')
    /\ UNCHANGED << input, schemas, rootIdx, rootLen, currentRecursionLevel >>
    /\ UNCHANGED resolverVars

\* download: fetched and parsed, no descent: the new schema is appended
DownloadAppend ==
    /\ pc = "resolve" /\ HasEntry /\ ~IsSkipped(Entry)
    /\ ~AlreadyResolved(schemaKey)
    /\ schemaKey \in FileKeys
    /\ ~Descends(FileSchema(schemaKey), currentRecursionLevel)
    /\ resolvedXSDExternals' = resolvedXSDExternals \cup { schemaKey }
    /\ fetchLog' = Append(fetchLog, schemaKey)
    /\ schemas' = Append(schemas, Ptr(schemaKey, 0))
    /\ stack' = ReplaceTop(Advance(Top))
    /\ UNCHANGED << input, pc, err, rootIdx, rootLen, currentRecursionLevel >>
    /\ UNCHANGED resolverVars

\* download: fetched and parsed, the new schema has externals and the level is
\* below maxRecursion: resolveXSDExternals is called on it
DownloadDescend ==
    /\ pc = "resolve" /\ HasEntry /\ ~IsSkipped(Entry)
    /\ ~AlreadyResolved(schemaKey)
    /\ schemaKey \in FileKeys
    /\ Descends(FileSchema(schemaKey), currentRecursionLevel)
    /\ resolvedXSDExternals' = resolvedXSDExternals \cup { schemaKey }
    /\ fetchLog' = Append(fetchLog, schemaKey)
    /\ currentRecursionLevel' = (currentRecursionLevel + 1) % 256
    /\ stack' = Append(ReplaceTop([ Top EXCEPT !.pending = << Ptr(schemaKey, 0) >> ]),
                       NewFrame(Ptr(schemaKey, 0), EntryLocation))
    /\ UNCHANGED << input, pc, err, schemas, rootIdx, rootLen >>
    /\ UNCHANGED resolverVars

\* resolveXSDExternals returns nil: the waiting download appends its newschema
\* and the caller's loop goes on
ExternalsReturn ==
    /\ pc = "resolve" /\ stack # << >> /\ ~HasEntry
    /\ IF Len(stack) = 1
       THEN /\ stack' = << >>
            /\ rootIdx' = rootIdx + 1
            /\ UNCHANGED schemas
       ELSE LET parent == stack[Len(stack) - 1]
            IN  /\ schemas' = Append(schemas, parent.pending[1])
                /\ stack' = [ SubSeq(stack, 1, Len(stack) - 1)
                                EXCEPT ![Len(stack) - 1] = Advance(parent) ]
                /\ UNCHANGED rootIdx
    /\ UNCHANGED << input, pc, err, rootLen, resolvedXSDExternals,
                    currentRecursionLevel, fetchLog >>
    /\ UNCHANGED resolverVars

(***************************************************************************)
(* TypeResolver and NsTypeResolver (resolver.go)                           *)
(*                                                                         *)
(* An NsTypeResolver pointer is its index in heap; nil is 0.               *)
(***************************************************************************)
Nil == 0
EmptyMap == [ x \in {} |-> << >> ]

\* read of a map of resolver pointers: nil for an absent key
ResolverGet(m, k) == IF k \in DOMAIN m THEN m[k] ELSE Nil

NewTypeResolver(packageBase) ==
    [ PackageBase |-> IF packageBase # << >> THEN packageBase \o << "/" >> ELSE packageBase,
      NamespaceToResolver |-> EmptyMap,
      NamespaceToPackageRelative |-> EmptyMap,
      NamespaceToPackageFull |-> EmptyMap,
      NamespaceToPackage |-> EmptyMap,
      namespaceToResolver |-> EmptyMap ]

SetNamespaceToPackage(t, namespace, nativePackage) ==
    IF ~nativePackage
    THEN [ t EXCEPT
             !.NamespaceToPackageRelative =
                 MapPut(@, namespace, NamespaceToPackageRelative(namespace)),
             !.NamespaceToPackageFull =
                 MapPut(@, namespace, t.PackageBase \o NamespaceToPackageRelative(namespace)),
             !.NamespaceToPackage = MapPut(@, namespace, NamespaceToPackage(namespace)) ]
    ELSE [ t EXCEPT
             !.NamespaceToPackageRelative = MapPut(@, namespace, << >>),
             !.NamespaceToPackageFull = MapPut(@, namespace, << >>),
             !.NamespaceToPackage = MapPut(@, namespace, << >>) ]

\* the new resolver is stored at the end of the heap and in NamespaceToResolver;
\* schema is a pointer
NewNsTypeResolver(st, schema, goPackage) ==
    LET id == Len(st.heap) + 1
        namespace == Deref(schema).TargetNamespace
        r  == [ Schema |-> schema,
                NameToGoType |-> EmptyMap,
                NameToGoTypeFull |-> EmptyMap,
                goPackage |-> goPackage,
                goImports |-> << >> ]
    IN  [ tr   |-> [ st.tr EXCEPT !.NamespaceToResolver =
                        [ x \in (DOMAIN @) \cup { namespace } |->
                            IF x = namespace THEN id ELSE @[x] ] ],
          heap |-> Append(st.heap, r),
          ret  |-> id ]

AddNamespace(st, schema, nativePackage) ==
    LET namespace == Deref(schema).TargetNamespace
        t1 == IF namespace \notin DOMAIN st.tr.NamespaceToPackage
              THEN SetNamespaceToPackage(st.tr, namespace, nativePackage)
              ELSE st.tr
    IN  NewNsTypeResolver([ tr |-> t1, heap |-> st.heap ], schema,
                          t1.NamespaceToPackage[namespace])

RegisterType(r, name, typeName) ==
    [ r EXCEPT !.NameToGoType = MapPut(@, name, typeName),
               !.NameToGoTypeFull =
                   MapPut(@, name, IF r.goPackage # << >>
                                   THEN r.goPackage \o << "." >> \o typeName
                                   ELSE typeName) ]

RegisterTypeExternal(r, name, typeName) ==
    [ r EXCEPT !.NameToGoType = MapPut(@, name, typeName),
               !.NameToGoTypeFull = MapPut(@, name, typeName) ]

isMyNamespace(r, namespace) ==
    namespace = << >> \/ namespace = Deref(r.Schema).TargetNamespace

toNamespaceAndType(r, xsdType) ==
    LET namespaceLabelAndTypeName == Split(xsdType, ":")
    IN  IF Len(namespaceLabelAndTypeName) = 2
        THEN [ namespace |-> MapGet(Deref(r.Schema).Xmlns, namespaceLabelAndTypeName[1]),
               typeName  |-> namespaceLabelAndTypeName[2] ]
        ELSE [ namespace |-> Deref(r.Schema).TargetNamespace,
               typeName  |-> namespaceLabelAndTypeName[1] ]

BuildGoType(r, namespace, typeName) ==
    LET prim == MapGet(xsd2GoTypes, ToLower(typeName))
        norm == NormalizeTypeName(typeName)
        goPackage == MapGet(tr.NamespaceToPackage, namespace)
    IN  IF prim # << >> THEN prim
        ELSE IF isMyNamespace(r, namespace) /\ goPackage # << >>
             THEN goPackage \o << "." >> \o norm
             ELSE norm

\* getTypeName registers the name it had to build
getTypeName(h, id, typeName, buildNotAvailable) ==
    LET found == MapGet(h[id].NameToGoType, typeName)
        built == BuildGoType(h[id], Deref(h[id].Schema).TargetNamespace, typeName)
    IN  IF found = << >> /\ buildNotAvailable
        THEN [ ret |-> built, heap |-> [ h EXCEPT ![id] = RegisterType(@, typeName, built) ] ]
        ELSE [ ret |-> found, heap |-> h ]

getTypeNameFull(r, typeName, buildNotAvailable) ==
    LET found == MapGet(r.NameToGoTypeFull, typeName)
    IN  IF found = << >> /\ buildNotAvailable
        THEN BuildGoType(r, Deref(r.Schema).TargetNamespace, typeName)
        ELSE found

findTypeNameFull(h, id, nsName, buildNotAvailable) ==
    LET nt == toNamespaceAndType(h[id], nsName)
        nsResolver == ResolverGet(tr.NamespaceToResolver, nt.namespace)
    IN  IF isMyNamespace(h[id], nt.namespace)
        THEN getTypeName(h, id, nt.typeName, buildNotAvailable)
        ELSE IF nsResolver # Nil
        THEN [ ret |-> getTypeNameFull(h[nsResolver], nt.typeName, buildNotAvailable),
               heap |-> h ]
        ELSE IF buildNotAvailable
        THEN [ ret |-> BuildGoType(h[id], nt.namespace, nt.typeName), heap |-> h ]
        ELSE [ ret |-> << >>, heap |-> h ]

\* a variant of FindTypeNillable that never decorates the name
FindTypeNillableNeverWraps(h, id, xsdType, nillable) ==
    LET res == findTypeNameFull(h, id, xsdType, TRUE)
    IN  [ ret |-> res.ret, heap |-> res.heap ]

FindTypeNillable(h, id, xsdType, nillable) ==
    LET res == findTypeNameFull(h, id, xsdType, TRUE)
    IN  [ ret  |-> IF nillable /\ ~isBasicType(res.ret) THEN << "*" >> \o res.ret ELSE res.ret,
          heap |-> res.heap ]

OnSimpleType(r, item) ==
    IF item.Name # << >> THEN RegisterType(r, item.Name, NormalizeTypeName(item.Name)) ELSE r

\* a variant of OnComplexType that registers nothing
OnComplexTypeIgnored(r, item) == r

OnComplexType(r, item) ==
    IF item.Name # << >> THEN RegisterType(r, item.Name, NormalizeTypeName(item.Name)) ELSE r

\* a variant of OnElement that names every virtual type after the element
OnElementByOwnName(r, item) ==
    IF item.ComplexType # << >>
    THEN RegisterType(r, item.Name, NormalizeTypeName(item.Name))
    ELSE r

OnElement(r, item) ==
    IF item.ComplexType # << >>
    THEN IF item.ComplexType[1].Name # << >>
         THEN RegisterType(r, item.Name, NormalizeTypeName(item.ComplexType[1].Name))
         ELSE RegisterType(r, item.Name, NormalizeTypeName(item.Name))
    ELSE r

\* a variant of OnMessage that also enters a message without parts in the table,
\* with an empty type name
OnMessageBindsEmpty(h, id, msg) ==
    IF Len(msg.Parts) = 0
    THEN [ h EXCEPT ![id] = RegisterTypeExternal(@, msg.Name, << >>) ]
    ELSE LET part == msg.Parts[1]
             res  == IF part.Type # << >>
                     THEN findTypeNameFull(h, id, part.Type, FALSE)
                     ELSE findTypeNameFull(h, id, part.Element, FALSE)
         IN  IF res.ret # << >>
             THEN [ res.heap EXCEPT ![id] = RegisterTypeExternal(@, msg.Name, res.ret) ]
             ELSE res.heap

\* a variant of OnMessage whose resolution builds the name it does not find
OnMessageSynthesizes(h, id, msg) ==
    IF Len(msg.Parts) = 0 THEN h
    ELSE LET part == msg.Parts[1]
             res  == IF part.Type # << >>
                     THEN findTypeNameFull(h, id, part.Type, TRUE)
                     ELSE findTypeNameFull(h, id, part.Element, TRUE)
         IN  IF res.ret # << >>
             THEN [ res.heap EXCEPT ![id] = RegisterTypeExternal(@, msg.Name, res.ret) ]
             ELSE res.heap

\* the message is bound to what its first part resolves to
OnMessage(h, id, msg) ==
    IF Len(msg.Parts) = 0 THEN h
    ELSE LET part == msg.Parts[1]
             res  == IF part.Type # << >>
                     THEN findTypeNameFull(h, id, part.Type, FALSE)
                     ELSE findTypeNameFull(h, id, part.Element, FALSE)
         IN  IF res.ret # << >>
             THEN [ res.heap EXCEPT ![id] = RegisterTypeExternal(@, msg.Name, res.ret) ]
             ELSE res.heap

\* traverser.Traverse: the listener is called for every named complex type and
\* the elements of its content, every named simple type and every element
\* declaration of the schema; the walk follows the declarations, never the type
\* an element refers to
Traverse(r, schema) ==
    LET RECURSIVE Fold(_, _, _, _)
        Fold(Op(_, _), items, i, acc) ==
            IF i > Len(items) THEN acc ELSE Fold(Op, items, i + 1, Op(acc, items[i]))
        TraverseComplexType(acc, ct) == Fold(OnElement, ct.Sequence, 1, OnComplexType(acc, ct))
    IN  Fold(OnElement, schema.Elements, 1,
             Fold(OnSimpleType, schema.SimpleType, 1,
                  Fold(TraverseComplexType, schema.ComplexTypes, 1, r)))

(***************************************************************************)
(* GoWSDL.Generate after unmarshal: RegisterTypes, then the generators     *)
(***************************************************************************)
asmVars == << schemas, stack, rootIdx, rootLen, resolvedXSDExternals,
              currentRecursionLevel, fetchLog >>

\* RegisterTypes: the resolver of the XML-Schema namespace, seeded with xsd2GoTypes
SeedPrimitives(r) ==
    LET RECURSIVE F(_, _)
        F(keys, acc) ==
            IF keys = {} THEN acc
            ELSE LET k == CHOOSE x \in keys : TRUE
                 IN  F(keys \ { k }, RegisterType(acc, k, xsd2GoTypes[k]))
    IN  F(DOMAIN xsd2GoTypes, r)

RegSeed ==
    /\ pc = "registerTypes"
    /\ LET st == AddNamespace([ tr |-> tr, heap |-> heap ], XSDPseudoPtr, TRUE)
       IN  /\ tr' = st.tr
           /\ heap' = [ st.heap EXCEPT ![st.ret] = SeedPrimitives(@) ]
    /\ ri' = 1
    /\ pc' = IF Len(schemas) = 0 THEN "target" ELSE "pass1"
    /\ UNCHANGED << input, err, retResolver, regDone, emitted, lastCall, watch >>
    /\ UNCHANGED << asmVars, clientCall, xmlContent, xmlCall >>

\* RegisterTypes, first loop: a resolver is added for the schema and the schema
\* is traversed with it
RegPass1 ==
    /\ pc = "pass1" /\ ri <= Len(schemas)
    /\ LET schema == schemas[ri]
           st == AddNamespace([ tr |-> tr, heap |-> heap ], schema, FALSE)
       IN  /\ tr' = [ st.tr EXCEPT !.namespaceToResolver =
                        MapPut(@, Deref(schema).TargetNamespace, st.ret) ]
           /\ heap' = [ st.heap EXCEPT ![st.ret] = Traverse(@, Deref(schema)) ]
    /\ ri' = IF ri = Len(schemas) THEN 1 ELSE ri + 1
    /\ pc' = IF ri = Len(schemas) THEN "pass2" ELSE "pass1"
    /\ UNCHANGED << input, err, retResolver, regDone, emitted, lastCall, watch >>
    /\ UNCHANGED << asmVars, clientCall, xmlContent, xmlCall >>

\* RegisterTypes, second loop: the schema is traversed again with the resolver
\* namespaceToResolver holds for its namespace
RegPass2 ==
    /\ pc = "pass2" /\ ri <= Len(schemas)
    /\ LET schema == schemas[ri]
           id == tr.namespaceToResolver[Deref(schema).TargetNamespace]
       IN  heap' = [ heap EXCEPT ![id] = Traverse(@, Deref(schema)) ]
    /\ ri' = IF ri = Len(schemas) THEN 1 ELSE ri + 1
    /\ pc' = IF ri = Len(schemas) THEN "target" ELSE "pass2"
    /\ UNCHANGED << input, err, tr, retResolver, regDone, emitted, lastCall, watch >>
    /\ UNCHANGED << asmVars, clientCall, xmlContent, xmlCall >>

\* RegisterTypes: ret is the resolver of WsdlDoc.TargetNamespace, added when missing
RegTarget ==
    /\ pc = "target"
    /\ LET have == ResolverGet(tr.namespaceToResolver, WsdlDoc.TargetNamespace)
           st == AddNamespace([ tr |-> tr, heap |-> heap ],
                              WSDLPseudoPtr, FALSE)
       IN  IF have # Nil
           THEN /\ retResolver' = have
                /\ UNCHANGED << tr, heap >>
           ELSE /\ retResolver' = st.ret
                /\ heap' = st.heap
                /\ tr' = [ st.tr EXCEPT !.namespaceToResolver =
                             MapPut(@, WsdlDoc.TargetNamespace, st.ret) ]
    /\ ri' = 1
    /\ pc' = IF Len(WsdlDoc.Messages) = 0 THEN "genTypes" ELSE "messages"
    /\ regDone' = (Len(WsdlDoc.Messages) = 0)
    /\ UNCHANGED << input, err, emitted, lastCall, watch >>
    /\ UNCHANGED << asmVars, clientCall, xmlContent, xmlCall >>

\* RegisterTypes, last loop: ret.OnMessage(message)
RegMessage ==
    /\ pc = "messages" /\ ri <= Len(WsdlDoc.Messages)
    /\ heap' = OnMessage(heap, retResolver, WsdlDoc.Messages[ri])
    /\ ri' = ri + 1
    /\ pc' = IF ri = Len(WsdlDoc.Messages) THEN "genTypes" ELSE "messages"
    /\ regDone' = (ri = Len(WsdlDoc.Messages))
    /\ UNCHANGED << input, err, tr, retResolver, emitted, lastCall, watch >>
    /\ UNCHANGED << asmVars, clientCall, xmlContent, xmlCall >>

NoCall == [ resolver |-> Nil, xsdType |-> << >>, nillable |-> FALSE, ret |-> << >> ]

\* a generator step ends, failed (template or file error) or not; its Context
\* is dropped, and with it the history of the Context's calls
GenStep(this, next) ==
    /\ pc = this
    /\ emitted' = emitted \cup { this }
    /\ \E ok \in BOOLEAN :
         IF ok THEN pc' = next /\ err' = err
         ELSE pc' = "returned" /\ err' = [ kind |-> "generateError", key |-> << >> ]
    /\ lastCall' = NoCall
    /\ watch' = << >>
    /\ UNCHANGED << input, tr, heap, ri, retResolver, regDone >>
    /\ UNCHANGED << asmVars, clientCall, xmlContent, xmlCall >>

GenTypes == GenStep("genTypes", "genService")
GenService == GenStep("genService", "genServer")
GenServer == GenStep("genServer", "returned")

(***************************************************************************)
(* The query API                                                           *)
(***************************************************************************)
\* the resolvers a Context can be set to (GetResolverForNamespace)
ContextResolvers == Range(tr.namespaceToResolver)

\* the generator steps, whose templates call the query API
GenPhases == { "genTypes", "genService", "genServer" }

\* a template calls Context.FindTypeNillable with the Context set to resolver
\* id; while watch is empty the call may be the one kept in it
FindTypeNillableCall ==
    /\ regDone /\ pc \in GenPhases
    /\ \E id \in ContextResolvers, xsdType \in input.refs, nillable \in BOOLEAN,
          remember \in IF watch = << >> THEN BOOLEAN ELSE { FALSE } :
         LET res  == FindTypeNillable(heap, id, xsdType, nillable)
             call == [ resolver |-> id, xsdType |-> xsdType, nillable |-> nillable,
                       ret |-> res.ret ]
         IN  /\ heap' = res.heap
             /\ lastCall' = call
             /\ watch' = IF remember THEN << call >> ELSE watch
    /\ UNCHANGED << input, pc, err, tr, ri, retResolver, regDone, emitted >>
    /\ UNCHANGED << asmVars, clientCall, xmlContent, xmlCall >>

\* the two imports every generated file has
sEncodingXml == << "e","n","c","o","d","i","n","g","/","x","m","l" >>
sSoapPackage ==
    << "g","i","t","h","u","b",".","c","o","m","/","h","o","o","k","l","i","f","t","/",
       "g","o","w","s","d","l","/","s","o","a","p" >>

\* the orders in which a range loop can deliver the keys of a Go map
IterationOrders(m) ==
    { f \in [ 1..Cardinality(DOMAIN m) -> DOMAIN m ] :
        \A i, j \in DOMAIN f : i # j => f[i] # f[j] }

\* GetGoImports: the lines written to the buffer, one import path a line, when
\* the loop over Schema.Xmlns delivers the prefixes in the given order
ImportLines(r, order) ==
    LET RECURSIVE Loop(_, _)
        Loop(i, buffer) ==
            IF i > Len(order) THEN buffer
            ELSE LET namespace == Deref(r.Schema).Xmlns[order[i]]
                     imp == MapGet(tr.NamespaceToPackageFull, namespace)
                 IN  IF Deref(r.Schema).TargetNamespace # namespace /\ imp # << >>
                     THEN Loop(i + 1, Append(buffer, imp))
                     ELSE Loop(i + 1, buffer)
    IN  Loop(1, << sEncodingXml, sSoapPackage >>)

\* GetGoImports: the buffer is built on the first call and kept in goImports
GetGoImports(h, id, order) ==
    IF h[id].goImports = << >>
    THEN [ ret |-> ImportLines(h[id], order),
           heap |-> [ h EXCEPT ![id].goImports = ImportLines(h[id], order) ] ]
    ELSE [ ret |-> h[id].goImports, heap |-> h ]

\* a template calls Context.goImports with the Context set to resolver id
GetGoImportsCall ==
    /\ regDone /\ pc \in GenPhases
    /\ \E id \in ContextResolvers :
         \E order \in IterationOrders(Deref(heap[id].Schema).Xmlns) :
            heap' = GetGoImports(heap, id, order).heap
    /\ UNCHANGED << input, pc, err, tr, ri, retResolver, regDone, emitted, lastCall, watch >>
    /\ UNCHANGED << asmVars, clientCall, xmlContent, xmlCall >>

(***************************************************************************)
(* The SOAP client of the generated code: Client.call                      *)
(***************************************************************************)
NoResponse == [ StatusCode |-> 0, ContentType |-> "", Body |-> "" ]
IdleCall ==
    [ pc |-> "idle", entry |-> "", opts |-> [ Mtom |-> FALSE, Mma |-> FALSE ],
      retAttachments |-> "nil", res |-> NoResponse, err |-> [ kind |-> "nil" ] ]

\* the exported entry points; only the last hands call an attachments pointer
EntryPoints ==
    { "Call", "CallContext", "CallWithFaultDetail", "CallContextWithFaultDetail",
      "CallContextWithAttachmentsAndFaultDetail" }
PassesAttachments(entry) == entry = "CallContextWithAttachmentsAndFaultDetail"

\* what a server can answer: the status line, the Content-Type header and the
\* body (an envelope with the content, with a Fault, with attachments, or no XML)
Responses ==
    [ StatusCode : { 200, 400, 404, 500 },
      ContentType : { "text/xml", "multipart/related xop", "multipart/related",
                      "multipart malformed" },
      Body : { "content", "fault", "attachments", "garbage" } ]

\* call, to the encoding of the request: Mtom and Mma together are refused
ClientEncode ==
    /\ clientCall.pc = "idle"
    /\ \E entry \in EntryPoints, mtom \in BOOLEAN, mma \in BOOLEAN,
          passed \in BOOLEAN, encoded \in BOOLEAN :
         LET c == [ clientCall EXCEPT !.entry = entry,
                                !.opts = [ Mtom |-> mtom, Mma |-> mma ],
                                !.retAttachments =
                                    IF PassesAttachments(entry) /\ passed
                                    THEN "unset" ELSE "nil" ]
         IN  clientCall' = IF mtom /\ mma
                     THEN [ c EXCEPT !.pc = "returned", !.err = [ kind |-> "options" ] ]
                     ELSE IF ~encoded
                     THEN [ c EXCEPT !.pc = "returned", !.err = [ kind |-> "encode" ] ]
                     ELSE [ c EXCEPT !.pc = "sending" ]
    /\ UNCHANGED << input, pc, err, tr, heap, ri, retResolver, regDone, emitted,
                    lastCall, watch >>
    /\ UNCHANGED << asmVars, xmlContent, xmlCall >>

\* call, from http.NewRequest to client.Do: an error of either is returned, a
\* response is kept whatever its status
ClientDo ==
    /\ clientCall.pc = "sending"
    /\ \/ clientCall' = [ clientCall EXCEPT !.pc = "returned", !.err = [ kind |-> "transport" ] ]
       \/ \E res \in Responses : clientCall' = [ clientCall EXCEPT !.pc = "decoding", !.res = res ]
    /\ UNCHANGED << input, pc, err, tr, heap, ri, retResolver, regDone, emitted,
                    lastCall, watch >>
    /\ UNCHANGED << asmVars, xmlContent, xmlCall >>

\* call, after client.Do: getMtomHeader and getMmaHeader return an error for a
\* multipart Content-Type without a usable boundary; the decoder returns an
\* error for a body that is no envelope; attachments the decoder found are
\* written through retAttachments; the error returned is the Fault of the
\* envelope if it has one. res.StatusCode is not read.
ClientDecode ==
    /\ clientCall.pc = "decoding"
    /\ clientCall' =
         IF clientCall.res.ContentType = "multipart malformed"
         THEN [ clientCall EXCEPT !.pc = "returned", !.err = [ kind |-> "contentType" ] ]
         ELSE IF clientCall.res.Body = "garbage"
         THEN [ clientCall EXCEPT !.pc = "returned", !.err = [ kind |-> "decode" ] ]
         ELSE IF clientCall.res.Body = "attachments" /\ clientCall.retAttachments = "nil"
         THEN [ clientCall EXCEPT !.pc = "panicked" ]
         ELSE [ clientCall EXCEPT
                  !.pc = "returned",
                  !.retAttachments = IF clientCall.res.Body = "attachments" THEN "set" ELSE @,
                  !.err = IF clientCall.res.Body = "fault"
                          THEN [ kind |-> "Fault" ] ELSE [ kind |-> "nil" ] ]
    /\ UNCHANGED << input, pc, err, tr, heap, ri, retResolver, regDone, emitted,
                    lastCall, watch >>
    /\ UNCHANGED << asmVars, xmlContent, xmlCall >>

(***************************************************************************)
(* soap.XmlContent                                                         *)
(*                                                                         *)
(* An item is an interface{} value: a string, a struct the encoder can     *)
(* marshal, a value it cannot (a channel), or an int.                      *)
(***************************************************************************)
MaxItems == 2

StringItem(s) == [ kind |-> "string", s |-> s ]
StructItem(name) == [ kind |-> "struct", name |-> name ]
ChanItem == [ kind |-> "chan" ]
IntItem(n) == [ kind |-> "int", n |-> n ]

\* the items a caller passes
UserItems == { StringItem(<< "a" >>), StringItem(<< "b" >>), StructItem(<< "H" >>), ChanItem }

\* strconv's decimal form of a natural number
Itoa(n) ==
    LET DigitChars == << "0","1","2","3","4","5","6","7","8","9" >>
        RECURSIVE F(_)
        F(k) == IF k < 10 THEN << DigitChars[k + 1] >>
                ELSE F(k \div 10) \o << DigitChars[(k % 10) + 1] >>
    IN  F(n)

\* xml.Encoder.Encode into a fresh buffer: an element named after the type
\* around the value; a channel is an unsupported type
EncodeXml(item) ==
    IF item.kind = "chan" THEN [ err |-> TRUE, s |-> << >> ]
    ELSE IF item.kind = "int"
    THEN [ err |-> FALSE,
           s |-> << "<","i","n","t",">" >> \o Itoa(item.n) \o << "<","/","i","n","t",">" >> ]
    ELSE IF item.kind = "struct"
    THEN [ err |-> FALSE,
           s |-> << "<" >> \o item.name \o << ">","<","/" >> \o item.name \o << ">" >> ]
    ELSE [ err |-> FALSE, s |-> item.s ]

\* the zero XmlContent
NewXmlContent == [ Content |-> << >>, Items |-> << >> ]
NoXmlCall == [ op |-> "none", items |-> << >>, err |-> FALSE ]

\* AddItem: a string is appended as it is, any other item as its encoding; an
\* encoding error leaves the XmlContent alone
AddItem(o, item) ==
    LET enc == IF item.kind = "string" THEN [ err |-> FALSE, s |-> item.s ]
               ELSE EncodeXml(item)
    IN  IF enc.err THEN [ o |-> o, err |-> TRUE ]
        ELSE [ o   |-> [ Content |-> o.Content \o enc.s, Items |-> Append(o.Items, item) ],
               err |-> FALSE ]

\* SetItems: Content is emptied, Items is set to items, and AddItem is called
\* with the loop variable of "for header := range items", which is the index
SetItems(o, items) ==
    LET RECURSIVE Loop(_, _)
        Loop(header, acc) ==
            IF header >= Len(items) THEN [ o |-> acc, err |-> FALSE ]
            ELSE LET res == AddItem(acc, IntItem(header))
                 IN  IF res.err THEN res ELSE Loop(header + 1, res.o)
    IN  Loop(0, [ Content |-> << >>, Items |-> items ])

\* AddItem is called while Items is shorter than the longest SetItems leaves it
XmlAddItem ==
    /\ Len(xmlContent.Items) < 2 * MaxItems
    /\ \E item \in UserItems :
         LET res == AddItem(xmlContent, item)
         IN  /\ xmlContent' = res.o
             /\ xmlCall' = [ op |-> "AddItem", items |-> << item >>, err |-> res.err ]
    /\ UNCHANGED << input, pc, err, tr, heap, ri, retResolver, regDone, emitted,
                    lastCall, watch, clientCall >>
    /\ UNCHANGED asmVars

XmlSetItems ==
    /\ \E items \in UNION { [ 1..n -> UserItems ] : n \in 0..MaxItems } :
         LET res == SetItems(xmlContent, items)
         IN  /\ xmlContent' = res.o
             /\ xmlCall' = [ op |-> "SetItems", items |-> items, err |-> res.err ]
    /\ UNCHANGED << input, pc, err, tr, heap, ri, retResolver, regDone, emitted,
                    lastCall, watch, clientCall >>
    /\ UNCHANGED asmVars

(***************************************************************************)
(* Specifications                                                          *)
(***************************************************************************)
InitWith(inputs) ==
    /\ input \in inputs
    /\ pc = "unmarshal"
    /\ err = NoError
    /\ schemas = << >>
    /\ stack = << >>
    /\ rootIdx = 1
    /\ rootLen = 0
    /\ resolvedXSDExternals = {}
    /\ currentRecursionLevel = 0
    /\ fetchLog = << >>
    /\ tr = NewTypeResolver(sPkg)
    /\ heap = << >>
    /\ ri = 1
    /\ retResolver = Nil
    /\ regDone = FALSE
    /\ emitted = {}
    /\ lastCall = NoCall
    /\ watch = << >>
    /\ clientCall = IdleCall
    /\ xmlContent = NewXmlContent
    /\ xmlCall = NoXmlCall

MaxMessages == 2
MessageLists ==
    UNION { [ 1..n -> MessageKinds ] : n \in 0..MaxMessages }

\* the runs of the registration specification: the root schema imports b (after
\* an import without location); the root or b may include the fragment c, which
\* is in the namespace of either
InputsReg ==
    { MkInput(<< Ext(<< hNone, hB >>, rc) >>, NoExt, Ext(<< >>, bc), FragmentC(cn, << >>),
              0, ms, {}) :
        rc \in { << >>, << hC >> }, bc \in { << >>, << hC >> }, cn \in { nsA, nsB },
        ms \in MessageLists }
    \cup
    \* the root schema imports nothing that can be fetched: urn:b, which its
    \* prefix b is bound to, has no resolver
    { MkInput(<< Ext(<< hNone >>, << >>) >>, NoExt, NoExt, FragmentC(nsB, << >>), 0, ms, {}) :
        ms \in { << MsgForeign >>, << MsgForeign, MsgType >> } }
    \cup
    \* the messages refer to primitive types
    { MkInput(<< Ext(<< hNone, hB >>, << >>) >>, NoExt, NoExt, FragmentC(nsB, << >>), 0, ms, {}) :
        ms \in { << MsgString >>, << MsgDateTime >>, << MsgDateTime, MsgString >>,
                 << MsgReq >> } }
    \cup
    \* the types are not to be exported
    { PreserveCase(MkInput(<< Ext(<< hNone, hB >>, << >>) >>, NoExt, NoExt,
                           FragmentC(nsB, << >>), 0, ms, {})) :
        ms \in { << >>, << MsgType >> } }

\* the references looked up in the query specification
UserRefs == { Ref(pB, nWidget), Ref(pB, nBar), nBar }
PrimitiveRefs ==
    { Ref(pXsd, << "s","t","r","i","n","g" >>),
      Ref(pXsd, << "d","a","t","e","T","i","m","e" >>),
      Ref(pXsd, << "u","n","s","i","g","n","e","d","L","o","n","g" >>),
      Ref(pXsd, << "S","T","R","I","N","G" >>) }
SelfRefs == { Ref(pTns, nFoo), nFoo }
ShadowRefs == { nString, Ref(pTns, nString) }
SlashRefs == { Ref(pD, nPart), Ref(pA, nFoo) }
PrefixRefs == { Ref(pA, nFoo) }

\* the runs of the query specification: the root schema (urn:a) imports b (urn:b);
\* in the second graph it also has an import without location and includes the
\* fragment c, which b includes too; in the third the fragment c, a document of
\* urn:b like b, has a prefix map that differs from that of b
InputsQuery ==
    { MkInput(<< Ext(<< hB >>, << >>) >>, NoExt, NoExt, FragmentC(nsB, << >>),
              0, << MsgType >>, refs) :
        refs \in { UserRefs, PrimitiveRefs, SelfRefs, ShadowRefs } }
    \cup
    { MkInput(<< Ext(<< hNone, hB >>, << hC >>) >>, NoExt, Ext(<< >>, << hC >>),
              FragmentC(nsB, << >>), 0, << MsgType >>, refs) :
        refs \in { UserRefs, PrimitiveRefs, SelfRefs, ShadowRefs } }
    \cup
    { MkInput(<< Ext(<< hB >>, << hC >>) >>, NoExt, NoExt,
              FragmentCWith(nsB, XmlnsB2, << >>), 0, << MsgType >>, PrefixRefs) }
    \cup
    \* the root schema imports b and c; c is in http://d/, which the prefix d of
    \* b is bound to
    { MkInput(<< Ext(<< hB, hC >>, << >>) >>, NoExt, NoExt @@ [ Xmlns |-> XmlnsBD ],
              FragmentCWith(nsD, XmlnsC, << >>), 0, << MsgType >>, SlashRefs) }

\* the runs of the imports specification: the fragment c is in urn:a, urn:b or
\* urn:c
InputsImports ==
    { MkInput(<< Ext(<< hNone, hB >>, rc) >>, NoExt, Ext(<< >>, bc), FragmentC(cn, << >>),
              0, << MsgType >>, {}) :
        rc \in { << >>, << hC >> }, bc \in { << >>, << hC >> }, cn \in { nsA, nsB, nsC } }

Init == InitWith(InputsQuery)
InitImports == InitWith(InputsImports)
InitReg == InitWith(InputsReg)
InitAsm == InitWith(InputsAsm)

\* the steps of unmarshal
NextAsm ==
    \/ Unmarshal
    \/ ResolveRootSchema
    \/ UnmarshalReturn
    \/ SkipImport
    \/ DownloadResolved
    \/ DownloadFail
    \/ DownloadAppend
    \/ DownloadDescend
    \/ ExternalsReturn

\* the steps of RegisterTypes and of the generators
NextReg ==
    \/ RegSeed
    \/ RegPass1
    \/ RegPass2
    \/ RegTarget
    \/ RegMessage
    \/ GenTypes
    \/ GenService
    \/ GenServer

NextGen == NextAsm \/ NextReg

Next == NextGen \/ FindTypeNillableCall

Spec == Init /\ [][Next]_vars
SpecAsm == InitAsm /\ [][NextGen]_vars
SpecReg == InitReg /\ [][NextGen]_vars
NextImports == NextGen \/ GetGoImportsCall

\* one call of the client; the generator has not started
NextClient == ClientEncode \/ ClientDo \/ ClientDecode
InitClient ==
    InitWith({ MkInput(<< NoExt >>, NoExt, NoExt, FragmentC(nsB, << >>), 0, << >>, {}) })
SpecClient == InitClient /\ [][NextClient]_vars

SpecImports == InitImports /\ [][NextImports]_vars

\* the calls on one XmlContent
NextXml == XmlAddItem \/ XmlSetItems
SpecXml == InitClient /\ [][NextXml]_vars

\* unmarshal alone, run to its return: a step that can be taken is taken
SpecAsmLive == InitAsm /\ [][NextAsm]_vars /\ WF_vars(NextAsm)

(***************************************************************************)
(* Properties of the query API (checked under Spec)                        *)
(***************************************************************************)
\* the namespace a resolver was created for
ResolverNamespace(id) == Deref(heap[id].Schema).TargetNamespace

\* C1: after RegisterTypes, two calls FindTypeNillable(R, nillable) on the same
\* resolver return the same string, whatever calls happen between them: the
\* last call returns what the remembered earlier call with its arguments returned.
C1_SameArgumentsSameResult ==
    (/\ watch # << >>
     /\ lastCall.resolver = watch[1].resolver
     /\ lastCall.xsdType = watch[1].xsdType
     /\ lastCall.nillable = watch[1].nillable)
    => lastCall.ret = watch[1].ret

\* a reference "xsd:<name>" whose name, in any letter case, is a key of xsd2GoTypes
IsPrimitiveRef(xsdType) ==
    LET parts == Split(xsdType, ":")
    IN  /\ Len(parts) = 2
        /\ parts[1] = pXsd
        /\ ToLower(parts[2]) \in DOMAIN xsd2GoTypes

\* C2: for a primitive name of xsd2GoTypes in any letter case, referenced through
\* a prefix bound to the XML-Schema namespace, FindTypeNillable returns the
\* built-in name of the table, with no leading "*", for nillable false and true.
C2_PrimitiveNeverWrapped ==
    (lastCall.resolver # Nil /\ IsPrimitiveRef(lastCall.xsdType))
    => /\ lastCall.ret = xsd2GoTypes[ToLower(Split(lastCall.xsdType, ":")[2])]
       /\ lastCall.ret[1] # "*"

\* C9: FindTypeNillable("b:Widget", false) on the resolver of urn:a returns
\* "b.Widget", Widget's name qualified with the package identifier of urn:b.
C9_CrossNamespaceWidget ==
    (/\ lastCall.resolver # Nil
     /\ ResolverNamespace(lastCall.resolver) = nsA
     /\ lastCall.xsdType = Ref(pB, nWidget)
     /\ ~lastCall.nillable)
    => lastCall.ret = pB \o << "." >> \o nWidget

\* C10: at most one NsTypeResolver is ever created for a namespace: no two
\* resolvers of the heap are of the same target namespace.
C10_OneResolverPerNamespace ==
    \A i \in DOMAIN heap : \A j \in DOMAIN heap :
        ResolverNamespace(i) = ResolverNamespace(j) => i = j

\* C13: for every reference whose resolved type is not a basic type,
\* FindTypeNillable(R, true) is "*" followed by FindTypeNillable(R, false), in
\* whichever order the two calls are made; FindTypeNillable(R, false) never
\* starts with "*".
C13_NillableWrapping ==
    (regDone /\ pc \in GenPhases) =>
        \A id \in ContextResolvers, R \in input.refs :
            LET f1 == FindTypeNillable(heap, id, R, FALSE)
                t2 == FindTypeNillable(f1.heap, id, R, TRUE)
                t1 == FindTypeNillable(heap, id, R, TRUE)
                f2 == FindTypeNillable(t1.heap, id, R, FALSE)
            IN  /\ ~isBasicType(f1.ret) => t2.ret = << "*" >> \o f1.ret
                /\ ~isBasicType(f2.ret) => t1.ret = << "*" >> \o f2.ret
                /\ ~HasPrefix(f1.ret, << "*" >>)
                /\ ~HasPrefix(f2.ret, << "*" >>)

\* a template looked up a reference to a user type in a nillable context and
\* got the decorated name
C13_NillableLookupMade ==
    /\ lastCall # NoCall
    /\ lastCall.nillable
    /\ lastCall.xsdType = Ref(pB, nWidget)
    /\ HasPrefix(lastCall.ret, << "*" >>)
    /\ ~isBasicType(TrimPrefix(lastCall.ret, << "*" >>))

\* the type attribute of the element the complex type Foo of the root schema
\* holds: a reference to Foo itself
InnerReference == Deref(Ptr(RootKey, 1)).ComplexTypes[1].Sequence[1].Type

\* the resolver the Context is set to for a namespace
ResolverOf(ns) == ResolverGet(tr.namespaceToResolver, ns)

ActiveDescents == IF stack = << >> THEN 0 ELSE Len(stack) - 1

\* C12: during assembly at most maxRecursion descents into external schemas
\* are active at once, and currentRecursionLevel stays within 0..maxRecursion
\* (the uint8 never wraps).
C12_BoundedRecursion ==
    /\ ActiveDescents <= maxRecursion
    /\ currentRecursionLevel \in 0..maxRecursion

\* the cap was reached: the document after the maxRecursion-th descent was
\* fetched and appended without a descent
C12_CapReached ==
    /\ currentRecursionLevel = maxRecursion
    /\ ActiveDescents = maxRecursion
    /\ Ptr(sDir \o ChainName(maxRecursion + 1), 0) \in Range(schemas)

\* download has fetched and parsed a schema that declares an import or an include
FetchedWithExternals ==
    /\ pc = "resolve" /\ HasEntry /\ Entry.SchemaLocation # << >>
    /\ schemaKey \notin resolvedXSDExternals
    /\ schemaKey \in FileKeys
    /\ Len(FileSchema(schemaKey).Imports) + Len(FileSchema(schemaKey).Includes) > 0
    /\ pc' = "resolve"

\* C18: a newly fetched schema that declares an import or include is descended
\* into whenever its nesting depth, the number of external schemas still being
\* resolved around it, is below maxRecursion, however many descents were
\* completed elsewhere in the graph.
C18_DescentDependsOnDepthOnly ==
    [][(FetchedWithExternals /\ ActiveDescents < maxRecursion)
          => Len(stack') = Len(stack) + 1]_vars

\* C19: in urn:b, which declares a type named string, a lookup of string,
\* unprefixed or with the prefix of urn:b itself, returns the built-in type
\* string of the primitive table and not the declared type.
C19_PrimitivePrecedence ==
    (/\ lastCall # NoCall
     /\ ResolverNamespace(lastCall.resolver) = nsB
     /\ lastCall.xsdType \in { nString, Ref(pTns, nString) })
    => TrimPrefix(lastCall.ret, << "*" >>) = MapGet(xsd2GoTypes, nString)

\* C20: a prefixed reference p:T of a schema document is resolved through the
\* prefix map that document declares: for every schema of the graph, the
\* namespace the resolver used for that schema's references finds for the
\* prefix is the one the schema's own map binds it to.
C20_OwnPrefixMap ==
    (regDone /\ pc \in GenPhases) =>
        \A i \in DOMAIN schemas : \A R \in input.refs :
            LET S == Deref(schemas[i])
                id == ResolverOf(S.TargetNamespace)
                labelAndName == Split(R, ":")
            IN  Len(labelAndName) = 2 =>
                  toNamespaceAndType(heap[id], R).namespace
                     = MapGet(S.Xmlns, labelAndName[1])

\* the entries of the root schema in the order its document declares them
RootDeclared ==
    IF "Declared" \in DOMAIN input.roots[1] THEN input.roots[1].Declared
    ELSE [ i \in 1..Len(input.roots[1].Imports) |->
             [ kind |-> "import", SchemaLocation |-> input.roots[1].Imports[i] ] ]
         \o [ i \in 1..Len(input.roots[1].Includes) |->
             [ kind |-> "include", SchemaLocation |-> input.roots[1].Includes[i] ] ]

\* the place of the first fetch of a key in the sequence of fetches
FirstFetch(key) == CHOOSE k \in DOMAIN fetchLog :
                      fetchLog[k] = key /\ \A l \in 1..(k - 1) : fetchLog[l] # key

\* C22: fetches happen in the order the entries are declared in their
\* document: of two entries of the root schema that lead to documents without
\* entries of their own, the one declared first is fetched first (an entry
\* counts where its location is declared first), an include declared before an
\* import included.
C22_FetchesInDeclaredOrder ==
    \A i, j \in DOMAIN RootDeclared :
        LET ki == sDir \o RootDeclared[i].SchemaLocation
            kj == sDir \o RootDeclared[j].SchemaLocation
            Leaf(k) == k \in FileKeys /\ Entries(FileSchema(k)) = << >>
        IN  (/\ i < j /\ ki # kj
             /\ \A l \in 1..(j - 1) : RootDeclared[l].SchemaLocation
                                         # RootDeclared[j].SchemaLocation
             /\ RootDeclared[i].SchemaLocation # << >>
             /\ RootDeclared[j].SchemaLocation # << >>
             /\ Leaf(ki) /\ Leaf(kj)
             /\ ki \in Range(fetchLog) /\ kj \in Range(fetchLog))
            => FirstFetch(ki) < FirstFetch(kj)

\* the symbol tables of every resolver
Tables(h) == [ i \in DOMAIN h |-> << h[i].NameToGoType, h[i].NameToGoTypeFull >> ]

\* C11: once RegisterTypes has returned, no call of the query API adds, removes
\* or changes an entry of any resolver's NameToGoType or NameToGoTypeFull.
C11_TablesReadOnlyAfterRegistration == [][regDone => Tables(heap') = Tables(heap)]_vars

(***************************************************************************)
(* Properties of the assembly (checked under SpecAsm and SpecAsmLive)      *)
(***************************************************************************)
\* assembly is over: unmarshal has returned, with an error or without
AssemblyDone == pc # "unmarshal" /\ pc # "resolve"

\* C3: for documents that reference one another in any way (mutual includes,
\* longer cycles, self-includes), assembly terminates: under the fairness of
\* SpecAsmLive every run gets to the return of unmarshal.
C3_AssemblyTerminates == <>AssemblyDone

\* C3's case: the root includes b and b includes the root back (whose document,
\* read as a schema, includes b again); every fetch succeeded and unmarshal has
\* returned nil
C3_CycleAssembled ==
    /\ pc = "registerTypes"
    /\ hB \in Range(input.roots[1].Includes)
    /\ input.b.Includes = << hA >>
    /\ input.b.Imports = << >>
    /\ input.rootXsd.Includes = << hB >>
    /\ sDir \o hB \in Range(fetchLog)

\* C4: the graph holds at most one schema per resolved location key and no
\* location, the root's included, is fetched a second time.
C4_NoDuplicateEntries ==
    /\ \A i \in DOMAIN fetchLog : \A j \in DOMAIN fetchLog :
         fetchLog[i] = fetchLog[j] => i = j
    /\ \A i \in DOMAIN schemas : \A j \in DOMAIN schemas :
         (schemas[i].key = schemas[j].key /\ (schemas[i].n = 0 \/ schemas[j].n = 0))
         => i = j

\* the keys of the entries of a schema at loc that carry a location
LocatedKeys(schema, loc) ==
    { LocString(LocParse(loc, e.SchemaLocation)) :
        e \in { x \in Range(Entries(schema)) :
                  ~(x.kind = "import" /\ x.SchemaLocation = << >>) } }

\* the keys reached from the root schemas through entries that carry a location
ReachedKeys ==
    LET roots == UNION { LocatedKeys(Deref(WsdlDoc.Schemas[i]), RootLocation) :
                           i \in DOMAIN WsdlDoc.Schemas }
        RECURSIVE Close(_)
        Close(keys) ==
            LET more == keys \cup UNION { LocatedKeys(FileSchema(k), Location(k)) :
                                            k \in keys \cap FileKeys }
            IN  IF more = keys THEN keys ELSE Close(more)
    IN  Close(roots)

\* the keys of the fetched schemas of the graph
GraphKeys == { schemas[i].key : i \in { j \in DOMAIN schemas : schemas[j].n = 0 } }

\* the loop is at an import entry without schemaLocation
AtEmptyImport ==
    /\ pc = "resolve" /\ stack # << >>
    /\ Top.idx <= Len(Entries(Deref(Top.schema)))
    /\ Entries(Deref(Top.schema))[Top.idx].kind = "import"
    /\ Entries(Deref(Top.schema))[Top.idx].SchemaLocation = << >>

\* the step at an import without schemaLocation: no fetch, no error, nothing
\* added to the graph, and the run goes on
EmptyImportStep ==
    AtEmptyImport =>
        /\ fetchLog' = fetchLog
        /\ err' = err
        /\ schemas' = schemas
        /\ resolvedXSDExternals' = resolvedXSDExternals
        /\ pc' = "resolve"

\* C5 as stated: besides the step above, the assembled graph is the root schemas
\* plus exactly the schemas reached through entries that carry a location.
C5_GraphIsExactlyReached ==
    pc = "registerTypes" =>
        /\ SubSeq(schemas, 1, rootLen) = WsdlDoc.Schemas
        /\ GraphKeys = ReachedKeys

\* C5, amended: an import without schemaLocation triggers no fetch and no error
\* and adds nothing; the assembled graph is the root schemas plus only schemas
\* reached through entries that carry a location, and all of them when fewer
\* than maxRecursion descents were made.
C5_MissingHintImport ==
    /\ [][EmptyImportStep]_vars
    /\ [](pc = "registerTypes" =>
            /\ SubSeq(schemas, 1, rootLen) = WsdlDoc.Schemas
            /\ GraphKeys \subseteq ReachedKeys
            /\ (currentRecursionLevel < maxRecursion => GraphKeys = ReachedKeys))

\* C5's case: an import without schemaLocation was passed over, before an
\* import that was fetched, and unmarshal has returned nil
C5_EmptyImportPassed ==
    /\ pc = "registerTypes"
    /\ input.roots[1].Imports = << hNone, hB >>
    /\ GraphKeys = { sDir \o hB }
    /\ fetchLog = << RootKey, sDir \o hB >>

\* C6: once a fetch or a parse of an external schema has failed, nothing more
\* is fetched (the failed fetch is the last of the log and the run has
\* returned, with that error), no resolver was registered and nothing emitted.
C6_FailFast ==
    err.kind \in { "fetchError", "parseError" } =>
        /\ pc = "returned"
        /\ stack = << >>
        /\ fetchLog[Len(fetchLog)] = err.key
        /\ heap = << >> /\ tr = NewTypeResolver(sPkg) /\ ~regDone
        /\ emitted = {}

\* C6's case: the parse of b failed while the import of c after it was still to
\* be fetched
C6_FailedBeforeLaterImport ==
    /\ err = [ kind |-> "parseError", key |-> sDir \o hB ]
    /\ input.roots[1].Imports = << hB, hC >>
    /\ fetchLog = << RootKey, sDir \o hB >>

(***************************************************************************)
(* Properties of RegisterTypes (checked under SpecReg)                     *)
(***************************************************************************)
\* the bound-message table: the names registered in the resolver RegisterTypes
\* returns
BoundTable == heap[retResolver].NameToGoType

\* C7: a message with zero parts gets no entry in the bound-message table and
\* does not stop or fail the run: the loop over the messages ends without an
\* error, and every message with one resolvable part, the later ones included,
\* is bound to its type (M1 to Foo, M2 through its element Req to Req).
C7_ZeroPartsSkipNotFail ==
    /\ pc = "messages" => err = NoError
    /\ regDone /\ pc = "genTypes" => err = NoError
    /\ regDone =>
         \A i \in DOMAIN input.messages :
            LET m == input.messages[i]
            IN  /\ Len(m.Parts) = 0 => m.Name \notin DOMAIN BoundTable
                /\ m = MsgType => MapGet(BoundTable, m.Name) = nFoo
                /\ m = MsgElem => MapGet(BoundTable, m.Name) = nReq

\* C7's case: a message without parts came first, the message after it is bound
C7_LaterMessageBound ==
    /\ regDone /\ pc = "genTypes"
    /\ input.messages = << MsgZero, MsgType >>
    /\ MsgZero.Name \notin DOMAIN BoundTable
    /\ MapGet(BoundTable, MsgType.Name) = nFoo

\* C8: a message with more than one part gets no entry in the bound-message
\* table.
C8_MultiPartNotBound ==
    regDone =>
        \A i \in DOMAIN input.messages :
            Len(input.messages[i].Parts) > 1
            => input.messages[i].Name \notin DOMAIN BoundTable

\* the reference a message with one part is bound through
BindingReference(m) ==
    IF m.Parts[1].Type # << >> THEN m.Parts[1].Type ELSE m.Parts[1].Element

\* C15: a message with one part is bound to the resolution of the part's type
\* attribute when it is non-empty and of its element attribute otherwise (M1 and
\* M5 to Foo, M2 to Req); the resolution builds no name: the undeclared Nope
\* gets no table entry, and a message whose reference resolves to nothing (M4,
\* M6) is left without an entry while the messages after it are processed.
C15_MessageBindingRule ==
    /\ pc = "messages" => err = NoError
    /\ regDone =>
         /\ nNope \notin DOMAIN BoundTable
         /\ \A i \in DOMAIN input.messages :
               LET m == input.messages[i]
                   resolved == findTypeNameFull(heap, retResolver, BindingReference(m), FALSE).ret
               IN  Len(m.Parts) = 1 =>
                     /\ resolved # << >> => MapGet(BoundTable, m.Name) = resolved
                     /\ resolved = << >> => m.Name \notin DOMAIN BoundTable
                     /\ m \in { MsgType, MsgBoth } => MapGet(BoundTable, m.Name) = nFoo
                     /\ m = MsgElem => MapGet(BoundTable, m.Name) = nReq
                     /\ m \in { MsgNope, MsgLate } => m.Name \notin DOMAIN BoundTable

\* C15's case: a message whose type reference resolves to nothing was left
\* unbound, and the message after it, which has both attributes, is bound
\* through its type
C15_UnboundThenBound ==
    /\ regDone /\ pc = "genTypes"
    /\ input.messages = << MsgLate, MsgBoth >>
    /\ MsgLate.Name \notin DOMAIN BoundTable
    /\ MapGet(BoundTable, MsgBoth.Name) = nFoo

(***************************************************************************)
(* Properties of GetGoImports (checked under SpecImports)                  *)
(***************************************************************************)
NoDuplicates(s) == \A i, j \in DOMAIN s : i # j => s[i] # s[j]

\* C16: the imports GetGoImports has returned for a resolver list no package
\* path twice, are the same whatever order the loop over the prefix map took,
\* and hold neither the package of the resolver's own namespace nor an entry
\* for the XML-Schema namespace.
C16_ImportsOrderedSet ==
    \A id \in DOMAIN heap :
        LET r == heap[id]
            ns == Deref(r.Schema).TargetNamespace
        IN  r.goImports # << >> =>
              /\ NoDuplicates(r.goImports)
              /\ \A order \in IterationOrders(Deref(r.Schema).Xmlns) :
                    ImportLines(r, order) = r.goImports
              /\ MapGet(tr.NamespaceToPackageFull, ns) \notin Range(r.goImports)
              /\ Len(r.goImports) <= 2 + Cardinality(Range(Deref(r.Schema).Xmlns)
                                                     \ { ns, XSDNamespace })

(***************************************************************************)
(* Properties of Client.call (checked under SpecClient)                    *)
(***************************************************************************)
\* C17: when the server answers with a status code >= 400, Call and
\* CallContext return an HTTPError carrying that status code and the body of
\* the response.
C17_HTTPErrorOnStatus400 ==
    (/\ clientCall.pc = "returned"
     /\ clientCall.entry \in { "Call", "CallContext" }
     /\ clientCall.res # NoResponse
     /\ clientCall.res.StatusCode >= 400)
    => /\ clientCall.err.kind = "HTTPError"
       /\ clientCall.err.StatusCode = clientCall.res.StatusCode
       /\ clientCall.err.ResponseBody = clientCall.res.Body

\* the namespace the prefix of a message's reference is bound to has no resolver
UnresolvedNamespace(m) ==
    LET nt == toNamespaceAndType(heap[retResolver], BindingReference(m))
    IN  /\ ~isMyNamespace(heap[retResolver], nt.namespace)
        /\ ResolverGet(tr.NamespaceToResolver, nt.namespace) = Nil

\* C21: message binding, which may not build a name, fails with an
\* unresolved-namespace error when the prefix of the part's reference is bound to
\* a namespace without a registered resolver: RegisterTypes does not return
\* without an error.
C21_UnresolvedNamespaceFails ==
    (/\ regDone
     /\ \E i \in DOMAIN input.messages :
           Len(input.messages[i].Parts) = 1 /\ UnresolvedNamespace(input.messages[i]))
    => err.kind = "unresolvedNamespace"

\* the names a schema declares for its named complex and simple types
DeclaredTypeNames(schema) ==
    { schema.ComplexTypes[i].Name : i \in DOMAIN schema.ComplexTypes }
    \cup { schema.SimpleType[i].Name : i \in DOMAIN schema.SimpleType }

\* C23: the name registered for a declared type follows the export-casing
\* policy: when the types are exported its first letter is upper-case, and when
\* they are not, a type declared with a lower-case first letter (the simple type
\* string of urn:b) is registered under a name that keeps the lower-case letter.
C23_ExportCasingPolicy ==
    regDone =>
        \A i \in DOMAIN schemas :
            LET schema == Deref(schemas[i])
                r == heap[tr.namespaceToResolver[schema.TargetNamespace]]
            IN  \A n \in DeclaredTypeNames(schema) \ { << >> } :
                    LET registered == MapGet(r.NameToGoType, n)
                    IN  /\ registered # << >>
                        /\ exportAllTypes => IsCap(registered[1])
                        /\ (~exportAllTypes /\ IsLow(n[1])) => registered[1] = n[1]

\* the element declarations of a schema: the top-level ones and those of the
\* content of its complex types
ElementDeclarations(schema) ==
    { schema.Elements[i] : i \in DOMAIN schema.Elements }
    \cup UNION { { schema.ComplexTypes[i].Sequence[j] :
                     j \in DOMAIN schema.ComplexTypes[i].Sequence } :
                 i \in DOMAIN schema.ComplexTypes }

\* the names the documents of a namespace register apart from element item: the
\* named types, the other elements with an inline complex type, the messages
NamedElsewhere(ns, item) ==
    UNION { DeclaredTypeNames(Deref(schemas[i]))
            \cup { e.Name : e \in { d \in ElementDeclarations(Deref(schemas[i])) :
                                       d # item /\ d.ComplexType # << >> } } :
            i \in { k \in DOMAIN schemas : Deref(schemas[k]).TargetNamespace = ns } }
    \cup { input.messages[i].Name : i \in DOMAIN input.messages }

\* C24: after registration the table of a namespace maps every element with a
\* named inline complex type to the synthesized name of that type (Order to
\* OrderType), every element with an anonymous inline complex type to the name
\* synthesized from its own name (Req to Req), and has no entry made for an
\* element without an inline complex type (next).
C24_ElementRegistration ==
    regDone =>
        \A i \in DOMAIN schemas :
            LET schema == Deref(schemas[i])
                r == heap[tr.namespaceToResolver[schema.TargetNamespace]]
            IN  \A item \in ElementDeclarations(schema) :
                    item.Name \notin NamedElsewhere(schema.TargetNamespace, item) =>
                        IF item.ComplexType = << >>
                        THEN item.Name \notin DOMAIN r.NameToGoType
                        ELSE IF item.ComplexType[1].Name # << >>
                        THEN /\ MapGet(r.NameToGoType, item.Name)
                                  = NormalizeTypeName(item.ComplexType[1].Name)
                             /\ item.Name = nOrder
                                  => MapGet(r.NameToGoType, item.Name) = nOrderType
                        ELSE /\ MapGet(r.NameToGoType, item.Name)
                                  = NormalizeTypeName(item.Name)
                             /\ item.Name = nReq => MapGet(r.NameToGoType, item.Name) = nReq

\* C24's case: registration is over; Order of urn:b is registered under the name
\* of its inline type, Req of urn:a under its own, and next is not registered
C24_ElementsRegistered ==
    /\ regDone
    /\ ResolverOf(nsA) # Nil /\ ResolverOf(nsB) # Nil
    /\ MapGet(heap[ResolverOf(nsB)].NameToGoType, nOrder) = nOrderType
    /\ MapGet(heap[ResolverOf(nsA)].NameToGoType, nReq) = nReq
    /\ nNext \notin DOMAIN heap[ResolverOf(nsA)].NameToGoType

\* C25: a message whose single part refers by type to a primitive of the
\* XML-Schema namespace is bound to the built-in name of that primitive,
\* whatever the letter case of the reference (xsd:string, xsd:dateTime).
C25_PrimitiveMessageBinding ==
    regDone =>
        \A i \in DOMAIN input.messages :
            LET m == input.messages[i]
                nt == toNamespaceAndType(heap[retResolver], m.Parts[1].Type)
            IN  (/\ Len(m.Parts) = 1 /\ m.Parts[1].Type # << >>
                 /\ nt.namespace = XSDNamespace
                 /\ ToLower(nt.typeName) \in DOMAIN xsd2GoTypes)
                => MapGet(BoundTable, m.Name) = xsd2GoTypes[ToLower(nt.typeName)]

\* the names the documents of namespace ns declare: the named types and the
\* elements with an inline complex type
DeclaredNames(ns) ==
    UNION { DeclaredTypeNames(Deref(schemas[i]))
            \cup { e.Name : e \in { d \in ElementDeclarations(Deref(schemas[i])) :
                                       d.ComplexType # << >> } } :
            i \in { k \in DOMAIN schemas : Deref(schemas[k]).TargetNamespace = ns } }

\* C26: a step of the loop over the messages leaves what every resolver returns
\* for the declared types and elements of its namespace as it was, the
\* package-qualified name included.
C26_MessageBindingPreservesResolution ==
    [][pc = "messages" =>
          \A id \in DOMAIN heap :
              \A n \in DeclaredNames(Deref(heap[id].Schema).TargetNamespace) :
                  /\ MapGet(heap'[id].NameToGoType, n) = MapGet(heap[id].NameToGoType, n)
                  /\ MapGet(heap'[id].NameToGoTypeFull, n)
                       = MapGet(heap[id].NameToGoTypeFull, n)]_vars

\* C27: the name FindTypeNillable returns for a reference into the namespace of
\* the resolver it is called on (no prefix, the own prefix, or a prefix bound to
\* nothing) does not start with the package identifier of that namespace,
\* whether the name was declared (Foo) or had to be synthesized (Bar).
C27_OwnNamespaceUnqualified ==
    lastCall.resolver # Nil =>
        LET r    == heap[lastCall.resolver]
            nt   == toNamespaceAndType(r, lastCall.xsdType)
            bare == IF lastCall.ret # << >> /\ lastCall.ret[1] = "*"
                    THEN Tail(lastCall.ret) ELSE lastCall.ret
        IN  (isMyNamespace(r, nt.namespace) /\ r.goPackage # << >>)
            => ~HasPrefix(bare, r.goPackage \o << "." >>)

\* C28: every resolver other than the one of the XML-Schema namespace has a
\* non-empty package identifier (GetGoPackage), also for a namespace URI ending
\* with a slash, and a reference from another namespace to a name declared in
\* its namespace is returned with a package qualifier.
C28_EveryNamespaceHasPackage ==
    /\ \A id \in DOMAIN heap :
          ResolverNamespace(id) # XSDNamespace => heap[id].goPackage # << >>
    /\ lastCall.resolver # Nil =>
          LET r  == heap[lastCall.resolver]
              nt == toNamespaceAndType(r, lastCall.xsdType)
          IN  (/\ ~isMyNamespace(r, nt.namespace)
               /\ nt.namespace # XSDNamespace
               /\ nt.typeName \in DeclaredNames(nt.namespace))
              => Contains(lastCall.ret, ".")

\* C29: a call through an entry point that passes no attachments pointer never
\* writes through the nil retAttachments, whatever the response is: the call
\* does not panic.
C29_NoNilAttachmentsWrite ==
    ~PassesAttachments(clientCall.entry) => clientCall.pc # "panicked"

\* what AddItem appends to Content for each of items, in order
ContentOf(items) ==
    LET RECURSIVE F(_, _)
        F(i, acc) == IF i > Len(items) THEN acc
                     ELSE F(i + 1, acc \o (IF items[i].kind = "string" THEN items[i].s
                                            ELSE EncodeXml(items[i]).s))
    IN  F(1, << >>)

\* C30: after SetItems(items) has returned without an error, for items that can
\* all be encoded, Items is the sequence items and Content is the concatenation
\* of the encodings of the items in order.
C30_SetItemsReplacesContent ==
    (/\ xmlCall.op = "SetItems" /\ ~xmlCall.err
     /\ \A i \in DOMAIN xmlCall.items : xmlCall.items[i] # ChanItem)
    => /\ xmlContent.Items = xmlCall.items
       /\ xmlContent.Content = ContentOf(xmlCall.items)

====
